---- MODULE Spec2Model ----
(***************************************************************************)
(* Pentatonic guitar trainer: the progress record, its persistence, and    *)
(* the two front ends that drive it (the console loop of                   *)
(* PentatonicTrainer.run and the tkinter PentatonicGUI with its            *)
(* practice_session worker threads).                                       *)
(*                                                                         *)
(* Representation.                                                         *)
(*  - Python strings that the code parses or indexes are sequences of      *)
(*    one-character strings ("position1", "120", the words of a scale      *)
(*    name), so that int(), str(), s[-1] and s.split()[-1] are computed.   *)
(*  - A frequency is its pitch on a logarithmic grid of quarter semitones  *)
(*    above the open low E string; 12*log2(f1/f2) is the difference of two *)
(*    pitches divided by four.                                             *)
(*  - An accuracy is the pair <<100 * correct, M>> standing for the float  *)
(*    correct / M * 100; it equals 100 exactly when correct = M.           *)
(*  - A history key f"{scale.name}_{bpm}" and an achievement               *)
(*    f"{scale.name} at {bpm} BPM" are the pair <<k, bpm>> of the scale    *)
(*    number and the tempo (both formats are injective in that pair).      *)
(*                                                                         *)
(* Specifications.                                                         *)
(*  - Spec: the program as its users drive it, a practice pass being one   *)
(*    step of the console and three steps of a GUI worker thread.          *)
(*  - SpecFn: the scoring and synthesis functions applied on their own     *)
(*    (variable call).                                                     *)
(*  - SpecCapture: one practice pass whose capture loop is followed read   *)
(*    by read (variable cap).                                              *)
(*  - SpecLive: the GUI with weak fairness on the steps of its started     *)
(*    threads and on the event loop's after_practice.                      *)
(***************************************************************************)
EXTENDS Integers, Sequences, FiniteSets, TLC

\* ------------------------------------------------------------------ bounds
MaxPasses == 2

\* --------------------------------------------------------------- constants
SAMPLE_RATE == 44100
CHUNK_SIZE == 1024
starting_bpm == 120
target_bpm == 240
COUNT_IN == 4
CLICK_SAMPLES == 2205
CONSOLE_STEP == 10
GUI_STEP == 5
LAST_POSITION == 5
TARGET_MIN == 60
TARGET_MAX == 300
\* quarter semitones per semitone, and FREQUENCY_TOLERANCE = 0.5 semitone
GRID == 4
BPM_MIN == 40
BPM_MAX == 300
ATTACK_SAMPLES == 882
DECAY_SAMPLES == 4410
RELEASE_SAMPLES == 13230
A4_PITCH == 116
FREQUENCY_TOLERANCE == 2

\* ------------------------------------------------------- strings and int()
Last(s) == s[Len(s)]

DigitChars == <<"0", "1", "2", "3", "4", "5", "6", "7", "8", "9">>

IsDigit(c) == \E i \in 1..10 : DigitChars[i] = c

DigitVal(c) == (CHOOSE i \in 1..10 : DigitChars[i] = c) - 1

RECURSIVE DigitsVal(_, _)
DigitsVal(s, acc) ==
    IF s = <<>> THEN acc
    ELSE DigitsVal(Tail(s), 10 * acc + DigitVal(Head(s)))

\* int(s): [ok |-> FALSE] stands for ValueError
ParseInt(s) ==
    LET neg  == s # <<>> /\ Head(s) = "-"
        body == IF neg THEN Tail(s) ELSE s
    IN  IF body = <<>> \/ \E i \in 1..Len(body) : ~IsDigit(body[i])
        THEN [ok |-> FALSE, val |-> 0]
        ELSE [ok |-> TRUE,
              val |-> IF neg THEN 0 - DigitsVal(body, 0) ELSE DigitsVal(body, 0)]

RECURSIVE IntToStr(_)
\* str(n) for n >= 0
IntToStr(n) ==
    IF n < 10 THEN <<DigitChars[n + 1]>>
    ELSE IntToStr(n \div 10) \o <<DigitChars[(n % 10) + 1]>>

\* f"position{k}"
PositionKey(k) == <<"p", "o", "s", "i", "t", "i", "o", "n">> \o IntToStr(k)

\* the words of ScalePosition.name, "Position k - A Minor Pentatonic"
ScaleName(k) ==
    << <<"P", "o", "s", "i", "t", "i", "o", "n">>,
       IntToStr(k),
       <<"-">>,
       <<"A">>,
       <<"M", "i", "n", "o", "r">>,
       <<"P", "e", "n", "t", "a", "t", "o", "n", "i", "c">> >>

\* the keys of self.scale_positions
PositionNumbers == 1..LAST_POSITION

\* self.scale_positions[position]: the number of the scale stored under a key
ScaleOfKey(key) == CHOOSE k \in PositionNumbers : PositionKey(k) = key

\* ------------------------------------------------------------ scale tables
\* the (fret, string) pairs of the Note objects of each position, in order
create_scale_position1 ==
    << <<5, 6>>, <<8, 6>>, <<5, 5>>, <<7, 5>>, <<5, 4>>, <<7, 4>>,
       <<5, 3>>, <<7, 3>>, <<5, 2>>, <<8, 2>>, <<5, 1>>, <<8, 1>> >>

create_scale_position2 ==
    << <<8, 6>>, <<10, 6>>, <<7, 5>>, <<10, 5>>, <<7, 4>>, <<10, 4>>,
       <<7, 3>>, <<9, 3>>, <<8, 2>>, <<10, 2>>, <<8, 1>>, <<10, 1>> >>

create_scale_position3 ==
    << <<10, 6>>, <<12, 6>>, <<10, 5>>, <<12, 5>>, <<10, 4>>, <<12, 4>>,
       <<9, 3>>, <<12, 3>>, <<10, 2>>, <<12, 2>>, <<10, 1>>, <<12, 1>> >>

create_scale_position4 ==
    << <<12, 6>>, <<15, 6>>, <<12, 5>>, <<15, 5>>, <<12, 4>>, <<14, 4>>,
       <<12, 3>>, <<14, 3>>, <<12, 2>>, <<15, 2>>, <<12, 1>>, <<15, 1>> >>

create_scale_position5 ==
    << <<15, 6>>, <<17, 6>>, <<15, 5>>, <<17, 5>>, <<14, 4>>, <<17, 4>>,
       <<14, 3>>, <<17, 3>>, <<15, 2>>, <<17, 2>>, <<15, 1>>, <<17, 1>> >>

scale_positions ==
    << create_scale_position1, create_scale_position2, create_scale_position3,
       create_scale_position4, create_scale_position5 >>

\* string_frequencies as semitones above E2 (82.41 Hz), strings 1..6:
\* 329.63, 246.94, 196.00, 146.83, 110.00 and 82.41 Hz
string_frequencies == <<24, 19, 15, 10, 5, 0>>

\* base_freq * 2 ** (fret / 12), on the quarter-semitone grid
calculate_note_frequency(string, fret) ==
    GRID * (string_frequencies[string] + fret)

NoteFrequency(note) == calculate_note_frequency(note[2], note[1])

Reversed(s) == [i \in 1..Len(s) |-> s[Len(s) + 1 - i]]

\* self.note_names: the chromatic names up each string from the open
\* string, strings 1..6
note_names ==
    << << "E", "F", "F#", "G", "G#", "A", "A#", "B", "C", "C#", "D", "D#" >>,
       << "B", "C", "C#", "D", "D#", "E", "F", "F#", "G", "G#", "A", "A#" >>,
       << "G", "G#", "A", "A#", "B", "C", "C#", "D", "D#", "E", "F", "F#" >>,
       << "D", "D#", "E", "F", "F#", "G", "G#", "A", "A#", "B", "C", "C#" >>,
       << "A", "A#", "B", "C", "C#", "D", "D#", "E", "F", "F#", "G", "G#" >>,
       << "E", "F", "F#", "G", "G#", "A", "A#", "B", "C", "C#", "D", "D#" >> >>

\* self.note_names[string][fret % 12]
get_note_name(string, fret) == note_names[string][(fret % 12) + 1]

\* Note(fret, string, calculate_note_frequency(string, fret),
\*      get_note_name(string, fret))
Note(fret, string) ==
    [ fret      |-> fret,
      string    |-> string,
      frequency |-> <<calculate_note_frequency(string, fret)>>,
      name      |-> get_note_name(string, fret) ]

\* the notes list of the ScalePosition create_scale_position<k> returns
ScalePositionNotes(k) ==
    [i \in 1..Len(scale_positions[k]) |->
        Note(scale_positions[k][i][1], scale_positions[k][i][2])]

\* scale.notes + list(reversed(scale.notes))
ExpectedNotes(k) == scale_positions[k] \o Reversed(scale_positions[k])

\* ------------------------------------------------------- sample arithmetic
Min(a, b) == IF a < b THEN a ELSE b

Max(a, b) == IF a > b THEN a ELSE b

\* tempos at which the float product 60.0 / bpm * 44100 falls just below
\* the exact integer quotient (every such tempo up to 20000)
FloatBelow == {735, 1470, 2940, 5880, 11025, 11760}

\* int(c * (60.0 / bpm) * SAMPLE_RATE) for bpm # 0: int() truncates to zero
BeatSamples(c, bpm) ==
    IF bpm > 0
    THEN ((c * 60 * SAMPLE_RATE) \div bpm) - (IF bpm \in FloatBelow THEN 1 ELSE 0)
    ELSE 0 - ((c * 60 * SAMPLE_RATE) \div (0 - bpm))

samples_per_beat(bpm) == BeatSamples(1, bpm)

\* the track cut to the length of num_beats exact beats
generate_metronome_exact(bpm, num_beats) ==
    [ok     |-> samples_per_beat(bpm) >= CLICK_SAMPLES,
     len    |-> BeatSamples(num_beats, bpm),
     clicks |-> [i \in 1..num_beats |-> (i - 1) * samples_per_beat(bpm)]]

\* generate_metronome: ok is FALSE when np.pad is given a negative width
\* (samples_per_beat shorter than the 50 ms click); len is len(metronome);
\* clicks[i] is the sample at which the click of beat i - 1 is added
generate_metronome(bpm, num_beats) ==
    [ok     |-> samples_per_beat(bpm) >= CLICK_SAMPLES,
     len    |-> num_beats * samples_per_beat(bpm),
     clicks |-> [i \in 1..num_beats |-> (i - 1) * samples_per_beat(bpm)]]

\* len(a[start:stop]) for an array of n samples: negative indices count
\* from the end and both ends are clipped to the array
SliceLen(n, start, stop) ==
    LET lo == IF start < 0 THEN Max(n + start, 0) ELSE Min(start, n)
        hi == IF stop < 0 THEN Max(n + stop, 0) ELSE Min(stop, n)
    IN  Max(hi - lo, 0)

\* a[...] = values succeeds when the slice has as many samples as values,
\* or values has one sample
Assignable(slice_len, values_len) ==
    slice_len = values_len \/ values_len = 1

\* generate_note on a buffer of samples = int(SAMPLE_RATE * duration)
\* samples: the three envelope assignments decide whether it returns
generate_note(frequency, samples) ==
    LET attack  == SliceLen(samples, 0, ATTACK_SAMPLES)
        decay   == SliceLen(samples, ATTACK_SAMPLES, ATTACK_SAMPLES + DECAY_SAMPLES)
        release == SliceLen(samples, 0 - RELEASE_SAMPLES, samples)
    IN  [ok  |-> /\ Assignable(attack, ATTACK_SAMPLES)
                 /\ Assignable(decay, DECAY_SAMPLES)
                 /\ Assignable(release, RELEASE_SAMPLES),
         len |-> samples]

\* round(x / g) as Python rounds: to the nearest integer, a tie to the even
RoundHalfEven(x, g) ==
    LET fl == x \div g
        r  == x % g
    IN  IF 2 * r < g THEN fl
        ELSE IF 2 * r > g THEN fl + 1
        ELSE IF fl % 2 = 0 THEN fl ELSE fl + 1

\* notes = ['A', 'A#', 'B', 'C', 'C#', 'D', 'D#', 'E', 'F', 'F#', 'G', 'G#']
NoteNames ==
    << "A", "A#", "B", "C", "C#", "D", "D#", "E", "F", "F#", "G", "G#" >>

\* find_closest_note on the frequency of pitch p: <<name, octave>>
find_closest_note(frequency) ==
    LET semitones == RoundHalfEven(frequency[1] - A4_PITCH, GRID)
        octave    == 4 + ((semitones + 9) \div 12)
        note_idx  == (semitones + 9) % 12
    IN  << NoteNames[note_idx + 1], octave >>

\* total_beats = 4 + notes_per_direction * 2
TotalBeats(k) == COUNT_IN + Len(scale_positions[k]) * 2

\* the capture loop
\*     while samples_recorded < total_samples: (read CHUNK_SIZE samples)
\* entered with samples_recorded samples: it reads the least number of
\* whole chunks that reaches total_samples and returns the samples recorded
CaptureLoop(samples_recorded, total_samples) ==
    IF samples_recorded < total_samples
    THEN samples_recorded
         + CHUNK_SIZE * ((total_samples - samples_recorded + CHUNK_SIZE - 1)
                         \div CHUNK_SIZE)
    ELSE samples_recorded

\* start_sample = int(4 * (60.0 / bpm) * SAMPLE_RATE)
start_sample(bpm) == BeatSamples(COUNT_IN, bpm)

\* the count-in left in: recording[0:]
PlayingLenWhole(rec_len, bpm) == rec_len

\* len(recording[start_sample:])
PlayingLen(rec_len, bpm) == Max(0, rec_len - start_sample(bpm))

\* the lengths of playing_audio[i:i + samples_per_beat]
\* for i in range(0, len(playing_audio), samples_per_beat)
WindowLens(rec_len, bpm) ==
    LET n   == PlayingLen(rec_len, bpm)
        spb == samples_per_beat(bpm)
        nw  == (n + spb - 1) \div spb
    IN  [j \in 1..nw |-> Min(spb, n - (j - 1) * spb)]

\* ------------------------------------------------------------------ scoring
\* an Optional[float]: <<>> is None, <<p>> a frequency of pitch p
None == <<>>

\* detect_fundamental_frequency on a chunk of the given length in which
\* the autocorrelation peak search finds `heard`
detect_fundamental_frequency(chunk_len, heard) ==
    IF chunk_len < CHUNK_SIZE THEN None ELSE heard

RECURSIVE NotesDetected(_, _, _)
\* the loop that fills notes_detected, from window j on
NotesDetected(lens, heard, j) ==
    IF j > Len(lens) THEN <<>>
    ELSE LET freq == detect_fundamental_frequency(lens[j], heard[j])
         IN  (IF lens[j] >= CHUNK_SIZE /\ freq # None THEN <<freq>> ELSE <<>>)
             \o NotesDetected(lens, heard, j + 1)

Abs(x) == IF x < 0 THEN 0 - x ELSE x

\* semitone_distance <= FREQUENCY_TOLERANCE
WithinTolerance(detected, expected) ==
    Abs(detected[1] - NoteFrequency(expected)) <= FREQUENCY_TOLERANCE

\* correct_notes after the loop over zip(notes_detected, expected_notes)
CorrectNotes(notes_detected, expected_notes) ==
    Cardinality({j \in 1..Min(Len(notes_detected), Len(expected_notes)) :
                    /\ notes_detected[j] # None
                    /\ WithinTolerance(notes_detected[j], expected_notes[j])})

\* the fraction of correct notes left unscaled
AccuracyAsFraction(correct_notes, expected_note_count) ==
    IF expected_note_count > 0
    THEN <<correct_notes, expected_note_count>>
    ELSE <<0, 1>>

\* accuracy = (correct_notes / expected_note_count) * 100, else 0
Accuracy(correct_notes, expected_note_count) ==
    IF expected_note_count > 0
    THEN <<100 * correct_notes, expected_note_count>>
    ELSE <<0, 1>>

\* a near miss taken for a perfect score
AtLeast95(accuracy) == accuracy[1] >= 95 * accuracy[2]

\* accuracy == 100
Is100(accuracy) == accuracy[1] = 100 * accuracy[2]

\* the score taken over the detected notes instead of the expected ones
ScorePassOverDetected(k, bpm, rec_len, heard) ==
    LET expected_notes == ExpectedNotes(k)
        notes_detected == NotesDetected(WindowLens(rec_len, bpm), heard, 1)
    IN  Accuracy(CorrectNotes(notes_detected, expected_notes), Len(notes_detected))

\* the accuracy of a recording of rec_len samples at tempo bpm scored
\* against position k, when the windows hold the pitches `heard`
ScorePass(k, bpm, rec_len, heard) ==
    LET expected_notes == ExpectedNotes(k)
        notes_detected == NotesDetected(WindowLens(rec_len, bpm), heard, 1)
    IN  Accuracy(CorrectNotes(notes_detected, expected_notes), Len(expected_notes))

\* len(recording) after the capture loop of a pass over `notes` at tempo bpm
RecordingLen(notes, bpm) ==
    CaptureLoop(0, generate_metronome(bpm, COUNT_IN + Len(notes) * 2).len)

RECURSIVE DetectedWindows(_, _, _)
\* the beat windows, from window j on, whose frequency the loop appends to
\* notes_detected: entry i of notes_detected was heard in window
\* DetectedWindows(lens, heard, 1)[i]
DetectedWindows(lens, heard, j) ==
    IF j > Len(lens) THEN <<>>
    ELSE (IF lens[j] >= CHUNK_SIZE
             /\ detect_fundamental_frequency(lens[j], heard[j]) # None
          THEN <<j>> ELSE <<>>)
         \o DetectedWindows(lens, heard, j + 1)

\* the windows zip(notes_detected, expected_notes) pairs with the expected
\* notes 1, 2, ...
PairedWindows(lens, heard, expected_notes) ==
    SubSeq(DetectedWindows(lens, heard, 1), 1,
           Min(Len(DetectedWindows(lens, heard, 1)), Len(expected_notes)))

\* play_game from "Skip the count-in portion" to the accuracy, on a
\* recording of a pass over `notes` at tempo bpm whose windows hold `heard`
play_game_score(notes, bpm, heard) ==
    LET expected_notes == notes \o Reversed(notes)
        lens == WindowLens(RecordingLen(notes, bpm), bpm)
        notes_detected == NotesDetected(lens, heard, 1)
    IN  [ scored   |-> TRUE,
          accuracy |-> Accuracy(CorrectNotes(notes_detected, expected_notes),
                                Len(expected_notes)),
          paired   |-> PairedWindows(lens, heard, expected_notes) ]

\* analyze_recording from "Skip the count-in portion" to the accuracy: no
\* accuracy is computed when expected_note_count is 0
analyze_recording_score(notes, bpm, heard) ==
    LET expected_notes == notes \o Reversed(notes)
        lens == WindowLens(RecordingLen(notes, bpm), bpm)
        notes_detected == NotesDetected(lens, heard, 1)
    IN  [ scored   |-> Len(expected_notes) > 0,
          accuracy |-> IF Len(expected_notes) > 0
                       THEN Accuracy(CorrectNotes(notes_detected, expected_notes),
                                     Len(expected_notes))
                       ELSE None,
          paired   |-> PairedWindows(lens, heard, expected_notes) ]

\* the practice_session threads: one per practice pass at most
Workers == 1..MaxPasses

\* ------------------------------------------------------------------- inputs
\* what the user may type at a tempo prompt or into a tempo spin box: the
\* spin boxes (bpm_var, target_bpm_var) are written by the user alone, so
\* their text is an input of the handler that reads it
TargetTexts ==
    { <<>>, <<"x">>, <<"5", "9">>, <<"1", "2", "5">>,
      <<"3", "0", "1">> }

BpmTexts == { <<"2", "3", "5">>, <<"x">> }

\* the entries of the position menu the user picks from
MenuChoices == {1, 5}

\* the beat windows in which a performance may go wrong: the last window of
\* a pass over a twelve-note position
FaultWindows == {24}

\* how a window may go wrong: nothing detected, a semitone sharp, or sharp
\* by exactly the tolerance
FaultKinds == {"none", "sharp", "edge"}

\* the pitch found in window j of a performance of position k
Heard(k, j, kind) ==
    LET expected_notes == ExpectedNotes(k)
    IN  IF j > Len(expected_notes) \/ kind = "none" THEN None
        ELSE IF kind = "sharp" THEN <<NoteFrequency(expected_notes[j]) + GRID>>
        ELSE IF kind = "edge"
             THEN <<NoteFrequency(expected_notes[j]) + FREQUENCY_TOLERANCE>>
        ELSE <<NoteFrequency(expected_notes[j])>>

\* the performances of position k over nw windows: every window holds its
\* expected note, except that one of the FaultWindows may go wrong
Performances(k, nw) ==
    { [j \in 1..nw |-> Heard(k, j, "hit")] }
    \cup { [j \in 1..nw |-> IF j = w THEN Heard(k, j, kind) ELSE Heard(k, j, "hit")] :
           w \in FaultWindows \cap (1..nw), kind \in FaultKinds }

\* the number of analysed windows in which nothing was detected
NoDetections(lens, heard) ==
    Cardinality({j \in 1..Len(lens) :
        lens[j] >= CHUNK_SIZE /\ detect_fundamental_frequency(lens[j], heard[j]) = None})

\* --------------------------------------------------------------------- state
VARIABLES
    frontend,         \* "console" (PentatonicTrainer.run) or "gui" (PentatonicGUI)
    running,          \* the constructor returned
    current_bpm,      \* PentatonicTrainer.current_bpm
    progress,         \* PentatonicTrainer.progress
    file,             \* pentatonic_progress.json
    con_pc,           \* where PentatonicTrainer.run stands
    con_idx,          \* the index of run's loop over positions_unlocked
    current_position, \* PentatonicGUI.current_position, 0 for None
    recording,        \* PentatonicGUI.recording
    practice_button,  \* the text of PentatonicGUI.practice_button
    workers,          \* the practice_session threads
    passes,           \* practice passes started so far
    op,               \* the last operation that may write the progress record,
                      \* the tempo or the file, and the state it began in
    call,             \* a function applied on its own: its name, its
                      \* arguments and what it returned
    cap               \* one capture loop followed read by read

vars ==
    << frontend, running, current_bpm, progress, file, con_pc, con_idx,
       current_position, recording, practice_button, workers, passes,
       op, call, cap >>

console_vars == << con_pc, con_idx >>

gui_vars == << current_position, recording, practice_button, workers >>

unit_vars == << call, cap >>

\* no function is applied on its own
NoCall == [fn |-> "none", args |-> <<>>, out |-> <<>>]

\* no capture loop is followed read by read
NoCapture == [pc |-> "idle"]

\* self.progress as __init__ and the reset of run build it
DefaultProgress ==
    [ total_score        |-> 0,
      games_won          |-> <<>>,
      target_bpm         |-> target_bpm,
      level_accuracies   |-> <<>>,
      highest_bpm        |-> starting_bpm,
      positions_unlocked |-> <<PositionKey(1)>> ]

\* a file save_progress wrote after one perfect console pass
SavedProgress ==
    [ total_score        |-> 0,
      games_won          |-> << <<1, 120>> >>,
      target_bpm         |-> target_bpm,
      level_accuracies   |-> (<<1, 120>> :> << <<2400, 24>> >>),
      highest_bpm        |-> starting_bpm + CONSOLE_STEP,
      positions_unlocked |-> <<PositionKey(1), PositionKey(2)>> ]

NoFile == [kind |-> "absent", rec |-> DefaultProgress]

CorruptFile == [kind |-> "corrupt", rec |-> DefaultProgress]

\* json.dump(self.progress, f)
save_progress(prog) == [kind |-> "ok", rec |-> prog]

\* no statement of load_progress binds the name saved_progress (the file is
\* opened but never parsed)
saved_progress_bound == FALSE

\* load_progress without its except clause: the exception leaves __init__
load_progress_unguarded(f, prog, cur) ==
    [raised |-> f.kind # "absent", progress |-> prog, current_bpm |-> cur]

\* load_progress on top of the record prog and tempo cur that __init__ set:
\* inside the try, the dict display reads saved_progress, so the NameError
\* reaches the bare except before self.progress or self.current_bpm is
\* assigned; raised tells whether an exception leaves load_progress
load_progress(f, prog, cur) ==
    IF f.kind = "absent"
    THEN [raised |-> FALSE, progress |-> prog, current_bpm |-> cur]
    ELSE IF saved_progress_bound /\ f.kind = "ok"
    THEN [raised |-> FALSE, progress |-> f.rec, current_bpm |-> f.rec.highest_bpm]
    ELSE [raised |-> FALSE, progress |-> prog, current_bpm |-> cur]

IdleWorker == [pc |-> "idle", bpm |-> 0, total_samples |-> 0, rec_len |-> 0]

NoAccuracy == <<0, 1>>

\* the record of an operation that ends now
Ended(name, pos, bpm, accuracy, nones) ==
    [ name |-> name, pos |-> pos, bpm |-> bpm, accuracy |-> accuracy,
      nones |-> nones, raised |-> FALSE, pre |-> progress,
      pre_bpm |-> current_bpm, pre_file |-> file, text |-> <<>> ]

\* the record of an operation that read `text` and ends now
EndedOnText(name, text) ==
    [Ended(name, 0, 0, NoAccuracy, 0) EXCEPT !.text = text]

\* PentatonicTrainer.__init__ (and PentatonicGUI.__init__ around it) with
\* the file f on disk
Startup(fe, f) ==
    LET loaded == load_progress(f, DefaultProgress, starting_bpm)
    IN  /\ frontend' = fe
        /\ running' = ~loaded.raised
        /\ progress' = loaded.progress
        /\ current_bpm' = loaded.current_bpm
        /\ file' = f
        /\ con_pc' = "menu"
        /\ con_idx' = 0
        /\ current_position' = 0
        /\ recording' = FALSE
        /\ practice_button' = "Start Practice"
        /\ workers' = [w \in Workers |-> IdleWorker]

FrontEnds == {"console", "gui"}

InitialFiles == {NoFile, CorruptFile, save_progress(SavedProgress)}

Init ==
    \E fe \in FrontEnds, f \in InitialFiles :
        /\ frontend = fe
        /\ file = f
        /\ LET loaded == load_progress(f, DefaultProgress, starting_bpm)
           IN  /\ running = ~loaded.raised
               /\ progress = loaded.progress
               /\ current_bpm = loaded.current_bpm
        /\ con_pc = "menu"
        /\ con_idx = 0
        /\ current_position = 0
        /\ recording = FALSE
        /\ practice_button = "Start Practice"
        /\ workers = [w \in Workers |-> IdleWorker]
        /\ passes = 0
        /\ op = [ name |-> "startup", pos |-> 0, bpm |-> 0,
                  accuracy |-> NoAccuracy, nones |-> 0, raised |-> FALSE,
                  pre |-> DefaultProgress, pre_bpm |-> starting_bpm,
                  pre_file |-> f, text |-> <<>> ]
        /\ call = NoCall
        /\ cap = NoCapture

\* the process ends (choice 5 of run, or the window is closed) and the
\* program is started again
Restart(fe) ==
    /\ running
    /\ UNCHANGED unit_vars
    /\ frontend = "console" => con_pc = "menu"
    /\ Startup(fe, file)
    /\ op' = Ended("startup", 0, 0, NoAccuracy, 0)
    /\ UNCHANGED passes

\* ------------------------------------------------------- console front end
\* the list of the key started afresh on every pass
AppendAccuracyFresh(level_accuracies, level_key, accuracy) ==
    [key \in DOMAIN level_accuracies \cup {level_key} |->
        IF key = level_key THEN <<accuracy>> ELSE level_accuracies[key]]

\* self.progress["level_accuracies"][level_key].append(accuracy), creating
\* the list when the key is absent
AppendAccuracy(level_accuracies, level_key, accuracy) ==
    [key \in DOMAIN level_accuracies \cup {level_key} |->
        IF key = level_key
        THEN Append(IF key \in DOMAIN level_accuracies
                    THEN level_accuracies[key] ELSE <<>>, accuracy)
        ELSE level_accuracies[key]]

\* the membership test of the unlock left out
InListNever(x, list) == FALSE

\* x in list
InList(x, list) == \E i \in 1..Len(list) : list[i] = x

\* the highest tempo left as it was
KeepHighest(highest_bpm, new_bpm) == highest_bpm

\* max(self.progress["highest_bpm"], self.current_bpm)
RaiseHighest(highest_bpm, new_bpm) == Max(highest_bpm, new_bpm)

\* play_game from "# Store accuracy for this attempt" to its last branch:
\* the record and tempo after a pass on the position stored under
\* `position`, scored `accuracy`
PlayGameProgress(prog, cur, position, accuracy) ==
    LET level_key   == <<ScaleOfKey(position), cur>>
        stored      == [prog EXCEPT !.level_accuracies =
                            AppendAccuracy(@, level_key, accuracy)]
        new_bpm     == Min(cur + CONSOLE_STEP, prog.target_bpm)
        current_pos == ParseInt(<<Last(position)>>).val
        next_pos    == PositionKey(current_pos + 1)
        won         == [stored EXCEPT
                            !.games_won = Append(@, level_key),
                            !.highest_bpm = RaiseHighest(@, new_bpm)]
    IN  IF Is100(accuracy)
        THEN [ progress |->
                 IF current_pos < LAST_POSITION
                    /\ ~InList(next_pos, prog.positions_unlocked)
                 THEN [won EXCEPT !.positions_unlocked = Append(@, next_pos)]
                 ELSE won,
               current_bpm |-> new_bpm ]
        ELSE [progress |-> stored, current_bpm |-> cur]

\* run, choice 1: enter the loop over self.progress["positions_unlocked"]
RunPlay ==
    /\ running /\ frontend = "console" /\ con_pc = "menu"
    /\ UNCHANGED unit_vars
    /\ con_pc' = "play"
    /\ con_idx' = 1
    /\ UNCHANGED op
    /\ UNCHANGED << frontend, running, current_bpm, progress, file, passes >>
    /\ UNCHANGED gui_vars

\* play_game left by choice 3, before anything is recorded
PlayGameReturn ==
    /\ running /\ frontend = "console" /\ con_pc = "play"
    /\ UNCHANGED unit_vars
    /\ con_pc' = "again"
    /\ UNCHANGED op
    /\ UNCHANGED << frontend, running, current_bpm, progress, file, passes,
                    con_idx >>
    /\ UNCHANGED gui_vars

\* play_game carried through: metronome, capture, scoring, progression, save
PlayGame ==
    /\ running /\ frontend = "console" /\ con_pc = "play"
    /\ UNCHANGED unit_vars
    /\ passes < MaxPasses
    /\ LET position  == progress.positions_unlocked[con_idx]
           k         == ScaleOfKey(position)
           metronome == generate_metronome(current_bpm, TotalBeats(k))
           rec_len   == CaptureLoop(0, metronome.len)
           lens      == WindowLens(rec_len, current_bpm)
       IN  /\ metronome.ok
           /\ \E heard \in Performances(k, Len(lens)) :
              \E accuracy \in {ScorePass(k, current_bpm, rec_len, heard)} :
              \E after \in {PlayGameProgress(progress, current_bpm,
                                              position, accuracy)} :
                    /\ progress' = after.progress
                    /\ current_bpm' = after.current_bpm
                    /\ file' = save_progress(after.progress)
                    /\ op' = Ended("play_game", k, current_bpm, accuracy,
                                   NoDetections(lens, heard))
    /\ passes' = passes + 1
    /\ con_pc' = "again"
    /\ UNCHANGED << frontend, running, con_idx >>
    /\ UNCHANGED gui_vars

\* run: "Would you like to try this position again?"; on 'y' the for loop
\* goes on to the next element of positions_unlocked, if there is one
RunAgain(again) ==
    /\ running /\ frontend = "console" /\ con_pc = "again"
    /\ UNCHANGED unit_vars
    /\ IF again /\ con_idx < Len(progress.positions_unlocked)
       THEN con_pc' = "play" /\ con_idx' = con_idx + 1
       ELSE con_pc' = "menu" /\ con_idx' = 0
    /\ UNCHANGED op
    /\ UNCHANGED << frontend, running, current_bpm, progress, file, passes >>
    /\ UNCHANGED gui_vars

\* run, choice 3: enter set_target_bpm
RunSetTarget ==
    /\ running /\ frontend = "console" /\ con_pc = "menu"
    /\ UNCHANGED unit_vars
    /\ con_pc' = "set_target"
    /\ UNCHANGED op
    /\ UNCHANGED << frontend, running, current_bpm, progress, file, passes,
                    con_idx >>
    /\ UNCHANGED gui_vars

\* the target tempo taken from any number that is at least 60
SetTargetNoCeiling(prog, text) ==
    LET new_target == ParseInt(text)
    IN  IF new_target.ok /\ TARGET_MIN <= new_target.val
        THEN [set |-> TRUE, progress |-> [prog EXCEPT !.target_bpm = new_target.val]]
        ELSE [set |-> FALSE, progress |-> prog]

\* the target tempo after one answer to a tempo prompt or one click on
\* "Set Target": set is whether the answer was accepted
SetTarget(prog, text) ==
    LET new_target == ParseInt(text)
    IN  IF new_target.ok /\ TARGET_MIN <= new_target.val
                         /\ new_target.val <= TARGET_MAX
        THEN [set |-> TRUE, progress |-> [prog EXCEPT !.target_bpm = new_target.val]]
        ELSE [set |-> FALSE, progress |-> prog]

\* PentatonicTrainer.set_target_bpm, one turn of its loop on the answer
\* `text`: the empty answer returns, a rejected one asks again
set_target_bpm(text) ==
    /\ running /\ frontend = "console" /\ con_pc = "set_target"
    /\ UNCHANGED unit_vars
    /\ LET after == SetTarget(progress, text)
       IN  IF text = <<>>
           THEN /\ con_pc' = "menu"
                /\ UNCHANGED << progress, file >>
           ELSE IF after.set
           THEN /\ progress' = after.progress
                /\ file' = save_progress(after.progress)
                /\ con_pc' = "menu"
           ELSE /\ con_pc' = "set_target"
                /\ UNCHANGED << progress, file >>
    /\ op' = EndedOnText("set_target_bpm", text)
    /\ UNCHANGED << frontend, running, current_bpm, passes, con_idx >>
    /\ UNCHANGED gui_vars

\* run, choice 4, answered with 'y' (confirm) or anything else
RunReset(confirm) ==
    /\ running /\ frontend = "console" /\ con_pc = "menu"
    /\ UNCHANGED unit_vars
    /\ IF confirm
       THEN /\ progress' = DefaultProgress
            /\ current_bpm' = starting_bpm
            /\ file' = save_progress(DefaultProgress)
       ELSE UNCHANGED << progress, current_bpm, file >>
    /\ op' = Ended(IF confirm THEN "reset" ELSE "reset_declined",
                   0, 0, NoAccuracy, 0)
    /\ UNCHANGED << frontend, running, passes >>
    /\ UNCHANGED console_vars
    /\ UNCHANGED gui_vars

\* ----------------------------------------------------------- GUI front end
\* PentatonicGUI.set_target_bpm, clicked with `text` in the target spin box
gui_set_target_bpm(text) ==
    /\ running /\ frontend = "gui"
    /\ UNCHANGED unit_vars
    /\ LET after == SetTarget(progress, text)
       IN  IF after.set
           THEN /\ progress' = after.progress
                /\ file' = save_progress(after.progress)
           ELSE UNCHANGED << progress, file >>
    /\ op' = EndedOnText("set_target_bpm", text)
    /\ UNCHANGED << frontend, running, current_bpm, passes,
                    current_position, recording, practice_button, workers >>
    /\ UNCHANGED console_vars

\* the words of an entry "Position i" of the position menu
MenuEntry(i) == << <<"P", "o", "s", "i", "t", "i", "o", "n">>, IntToStr(i) >>

\* PentatonicGUI.change_position on the menu entry "Position i"
change_position(i) ==
    /\ running /\ frontend = "gui"
    /\ UNCHANGED unit_vars
    /\ LET position_num == ParseInt(Last(MenuEntry(i))).val
       IN  IF position_num \in PositionNumbers
           THEN current_position' = position_num
           ELSE UNCHANGED current_position
    /\ UNCHANGED op
    /\ UNCHANGED << frontend, running, current_bpm, progress, file, passes,
                    recording, practice_button,
                    workers >>
    /\ UNCHANGED console_vars

FreeWorkers == {w \in Workers : workers[w].pc = "idle"}

\* PentatonicGUI.toggle_practice: start a practice_session thread when
\* self.recording is false, otherwise only clear the flag
toggle_practice ==
    /\ running /\ frontend = "gui"
    /\ UNCHANGED unit_vars
    /\ IF ~recording
       THEN /\ passes < MaxPasses
            /\ FreeWorkers # {}
            /\ recording' = TRUE
            /\ practice_button' = "Stop Practice"
            /\ LET w == CHOOSE v \in FreeWorkers : \A u \in FreeWorkers : v <= u
               IN  workers' = [workers EXCEPT ![w].pc = "begin"]
            /\ passes' = passes + 1
       ELSE /\ recording' = FALSE
            /\ practice_button' = "Start Practice"
            /\ UNCHANGED << workers, passes >>
    /\ UNCHANGED op
    /\ UNCHANGED << frontend, running, current_bpm, progress, file, current_position >>
    /\ UNCHANGED console_vars

\* practice_session up to the opening of the input stream, with `text` in
\* the BPM spin box when the thread reads self.bpm_var: the thread ends
\* with an exception on a BPM text that is no integer (ValueError), on
\* tempo 0 (ZeroDivisionError), when no position was chosen
\* (AttributeError on None) and when generate_metronome fails
PracticeBegin(w, text) ==
    /\ running /\ frontend = "gui"
    /\ UNCHANGED unit_vars
    /\ workers[w].pc = "begin"
    /\ LET bpm == ParseInt(text)
       IN  IF ~bpm.ok \/ bpm.val = 0 \/ current_position = 0
           THEN workers' = [workers EXCEPT ![w] = IdleWorker]
           ELSE LET metronome == generate_metronome(bpm.val,
                                     TotalBeats(current_position))
                IN  IF ~metronome.ok
                    THEN workers' = [workers EXCEPT ![w] = IdleWorker]
                    ELSE workers' = [workers EXCEPT ![w] =
                                [pc |-> "capturing", bpm |-> bpm.val,
                                 total_samples |-> metronome.len,
                                 rec_len |-> 0]]
    /\ UNCHANGED << frontend, running, current_bpm, progress, file, passes,
                    current_position, recording,
                    practice_button, op >>
    /\ UNCHANGED console_vars

\* practice_session: the capture loop, run to its end
Capture(w) ==
    /\ running /\ frontend = "gui"
    /\ UNCHANGED unit_vars
    /\ workers[w].pc = "capturing"
    /\ workers' = [workers EXCEPT
                      ![w].pc = "analysing",
                      ![w].rec_len = CaptureLoop(0, workers[w].total_samples)]
    /\ UNCHANGED << frontend, running, current_bpm, progress, file, passes,
                    current_position, recording,
                    practice_button, op >>
    /\ UNCHANGED console_vars

\* analyze_recording from "# Calculate accuracy and update progress" on:
\* the record and tempo after a pass at tempo bpm on scale k; raised tells
\* that int() of the last word of the scale name threw, saved that
\* save_progress was reached
AnalyzeProgress(prog, cur, k, bpm, accuracy, expected_note_count) ==
    LET level_key   == <<k, bpm>>
        stored      == [prog EXCEPT !.level_accuracies =
                            AppendAccuracy(@, level_key, accuracy)]
        won         == [stored EXCEPT !.games_won = Append(@, level_key)]
        current_pos == ParseInt(Last(ScaleName(k)))
        next_pos    == PositionKey(current_pos.val + 1)
        unlocked    == IF current_pos.val < LAST_POSITION
                          /\ ~InList(next_pos, prog.positions_unlocked)
                       THEN [won EXCEPT !.positions_unlocked = Append(@, next_pos)]
                       ELSE won
    IN  IF expected_note_count <= 0
        THEN [progress |-> prog, current_bpm |-> cur,
              raised |-> FALSE, saved |-> FALSE]
        ELSE IF ~Is100(accuracy)
        THEN [progress |-> stored, current_bpm |-> cur,
              raised |-> FALSE, saved |-> TRUE]
        ELSE IF ~current_pos.ok
        THEN [progress |-> won, current_bpm |-> cur,
              raised |-> TRUE, saved |-> FALSE]
        ELSE [progress |-> unlocked,
              current_bpm |-> IF bpm < prog.target_bpm
                              THEN Min(bpm + GUI_STEP, prog.target_bpm)
                              ELSE cur,
              raised |-> FALSE, saved |-> TRUE]

\* practice_session: analyze_recording(recording, bpm), then the request
\* self.after(0, self.after_practice) unless analyze_recording threw
analyze_recording(w) ==
    /\ running /\ frontend = "gui"
    /\ UNCHANGED unit_vars
    /\ workers[w].pc = "analysing"
    /\ LET k    == current_position
           bpm  == workers[w].bpm
           lens == WindowLens(workers[w].rec_len, bpm)
       IN  \E heard \in Performances(k, Len(lens)) :
           \E accuracy \in {ScorePass(k, bpm, workers[w].rec_len, heard)} :
           \E after \in {AnalyzeProgress(progress, current_bpm, k, bpm,
                                         accuracy, Len(ExpectedNotes(k)))} :
                 /\ progress' = after.progress
                 /\ current_bpm' = after.current_bpm
                 /\ file' = IF after.saved THEN save_progress(after.progress)
                                            ELSE file
                 /\ workers' = [workers EXCEPT ![w] =
                        IF after.raised THEN IdleWorker
                        ELSE [workers[w] EXCEPT !.pc = "after"]]
                 /\ op' = [Ended("analyze_recording", k, bpm, accuracy,
                                 NoDetections(lens, heard))
                           EXCEPT !.raised = after.raised]
    /\ UNCHANGED << frontend, running, passes,
                    current_position, recording, practice_button >>
    /\ UNCHANGED console_vars

\* PentatonicGUI.after_practice (the second definition in the class), run
\* by the event loop for the thread w that requested it
after_practice(w) ==
    /\ running /\ frontend = "gui"
    /\ UNCHANGED unit_vars
    /\ workers[w].pc = "after"
    /\ practice_button' = "Start Practice"
    /\ recording' = FALSE
    /\ workers' = [workers EXCEPT ![w] = IdleWorker]
    /\ UNCHANGED op
    /\ UNCHANGED << frontend, running, current_bpm, progress, file, passes,
                    current_position >>
    /\ UNCHANGED console_vars

\* ------------------------------------------------------------ specification
Next ==
    \/ \E fe \in FrontEnds : Restart(fe)
    \/ RunPlay
    \/ PlayGameReturn
    \/ PlayGame
    \/ \E again \in BOOLEAN : RunAgain(again)
    \/ RunSetTarget
    \/ \E text \in TargetTexts : set_target_bpm(text)
    \/ \E confirm \in BOOLEAN : RunReset(confirm)
    \/ \E text \in TargetTexts : gui_set_target_bpm(text)
    \/ \E i \in MenuChoices : change_position(i)
    \/ toggle_practice
    \/ \E w \in Workers, text \in BpmTexts : PracticeBegin(w, text)
    \/ \E w \in Workers : Capture(w)
    \/ \E w \in Workers : analyze_recording(w)
    \/ \E w \in Workers : after_practice(w)

Spec == Init /\ [][Next]_vars

\* analyze_recording of thread w comes to its end, whatever it scored:
\* the thread is over (it threw) or waits for after_practice
AnalysisEnds(w) ==
    /\ running /\ frontend = "gui"
    /\ workers[w].pc = "analysing"
    /\ \E left \in {IdleWorker, [workers[w] EXCEPT !.pc = "after"]} :
          workers' = [workers EXCEPT ![w] = left]

\* a step of the practice_session thread w, or of the event loop running
\* the after_practice that thread asked for
ThreadStep(w) ==
    \/ \E text \in BpmTexts : PracticeBegin(w, text)
    \/ Capture(w)
    \/ AnalysisEnds(w)
    \/ after_practice(w)

\* the GUI started on no progress file
InitLive ==
    /\ Init
    /\ frontend = "gui"
    /\ file = NoFile

\* the GUI until its window is closed
NextLive ==
    \/ \E text \in TargetTexts : gui_set_target_bpm(text)
    \/ \E i \in MenuChoices : change_position(i)
    \/ toggle_practice
    \/ \E w \in Workers, text \in BpmTexts : PracticeBegin(w, text)
    \/ \E w \in Workers : Capture(w)
    \/ \E w \in Workers : analyze_recording(w)
    \/ \E w \in Workers : after_practice(w)

\* the GUI with its threads and its event loop scheduled: a started
\* thread goes on running and a requested callback is run; the user's
\* actions stay free
SpecLive ==
    InitLive /\ [][NextLive]_vars /\ \A w \in Workers : WF_workers(ThreadStep(w))

\* ------------------------------------------------ the functions on their own
\* the variables of the running program
program_vars ==
    << frontend, running, current_bpm, progress, file, con_pc, con_idx,
       current_position, recording, practice_button, workers, passes, op >>

\* the note lists a pass is scored against: the five positions and the
\* empty list
ScoreNotes == {scale_positions[k] : k \in PositionNumbers} \cup {<<>>}

\* the tempos passes are scored at
ScoreTempos == {BPM_MIN, starting_bpm, BPM_MAX}

\* the pitch found in window j of a performance of expected_notes
HeardOf(expected_notes, j, kind) ==
    IF j > Len(expected_notes) \/ kind = "none" THEN None
    ELSE IF kind = "sharp" THEN <<NoteFrequency(expected_notes[j]) + GRID>>
    ELSE IF kind = "edge"
         THEN <<NoteFrequency(expected_notes[j]) + FREQUENCY_TOLERANCE>>
    ELSE <<NoteFrequency(expected_notes[j])>>

\* the performances of expected_notes, one pitch (or None) per window and
\* None in the short window after the last beat: every note as expected,
\* one window gone wrong, or every window gone wrong the same way
Recordings(expected_notes) ==
    LET M == Len(expected_notes)
    IN  { [j \in 1..(M + 1) |-> HeardOf(expected_notes, j, "hit")] }
        \cup { [j \in 1..(M + 1) |->
                  HeardOf(expected_notes, j, IF j = w THEN kind ELSE "hit")] :
                w \in 1..M, kind \in FaultKinds }
        \cup { [j \in 1..(M + 1) |-> HeardOf(expected_notes, j, kind)] :
                kind \in FaultKinds }

\* the pitches find_closest_note is asked about: fourteen semitones either
\* side of A4, by quarter semitones
ClosestPitches == (A4_PITCH - 14 * GRID)..(A4_PITCH + 14 * GRID)

\* the beat counts generate_metronome is asked for
MetronomeBeats == {0, 1, COUNT_IN, COUNT_IN + 24}

\* the tempos of the BPM spin box
PlaybackTempos == BPM_MIN..BPM_MAX

InitFn ==
    /\ Init
    /\ frontend = "console"
    /\ file = NoFile

\* play_game scores a recording
ApplyPlayGameScore ==
    /\ call = NoCall
    /\ \E notes \in ScoreNotes, bpm \in ScoreTempos :
         \E heard \in Recordings(notes \o Reversed(notes)) :
            call' = [ fn   |-> "play_game",
                      args |-> [notes |-> notes, bpm |-> bpm, heard |-> heard],
                      out  |-> play_game_score(notes, bpm, heard) ]
    /\ UNCHANGED << program_vars, cap >>

\* analyze_recording scores a recording
ApplyAnalyzeRecordingScore ==
    /\ call = NoCall
    /\ \E notes \in ScoreNotes, bpm \in ScoreTempos :
         \E heard \in Recordings(notes \o Reversed(notes)) :
            call' = [ fn   |-> "analyze_recording",
                      args |-> [notes |-> notes, bpm |-> bpm, heard |-> heard],
                      out  |-> analyze_recording_score(notes, bpm, heard) ]
    /\ UNCHANGED << program_vars, cap >>

\* play_demonstration / run_demo synthesise one note of a beat's length
ApplyGenerateNote ==
    /\ call = NoCall
    /\ \E bpm \in PlaybackTempos, note \in {scale_positions[1][1]} :
            call' = [ fn   |-> "generate_note",
                      args |-> [frequency |-> <<NoteFrequency(note)>>, bpm |-> bpm],
                      out  |-> generate_note(<<NoteFrequency(note)>>,
                                             BeatSamples(1, bpm)) ]
    /\ UNCHANGED << program_vars, cap >>

ApplyFindClosestNote ==
    /\ call = NoCall
    /\ \E p \in ClosestPitches :
            call' = [ fn   |-> "find_closest_note",
                      args |-> [frequency |-> <<p>>],
                      out  |-> find_closest_note(<<p>>) ]
    /\ UNCHANGED << program_vars, cap >>

\* generate_metronome called twice on the same arguments
ApplyGenerateMetronome ==
    /\ call = NoCall
    /\ \E bpm \in PlaybackTempos, num_beats \in MetronomeBeats :
            call' = [ fn   |-> "generate_metronome",
                      args |-> [bpm |-> bpm, num_beats |-> num_beats],
                      out  |-> << generate_metronome(bpm, num_beats),
                                  generate_metronome(bpm, num_beats) >> ]
    /\ UNCHANGED << program_vars, cap >>

\* play_game / analyze_recording cut the recording of a pass over `notes`
\* at tempo bpm into beat windows
ApplyWindowLens ==
    /\ call = NoCall
    /\ \E notes \in ScoreNotes, bpm \in PlaybackTempos :
            call' = [ fn   |-> "window_lens",
                      args |-> [notes |-> notes, bpm |-> bpm],
                      out  |-> WindowLens(RecordingLen(notes, bpm), bpm) ]
    /\ UNCHANGED << program_vars, cap >>

\* __init__ builds the ScalePosition stored under position<k>
ApplyCreateScalePosition ==
    /\ call = NoCall
    /\ \E k \in PositionNumbers :
            call' = [ fn   |-> "create_scale_position",
                      args |-> [k |-> k],
                      out  |-> ScalePositionNotes(k) ]
    /\ UNCHANGED << program_vars, cap >>

NextFn ==
    \/ ApplyCreateScalePosition
    \/ ApplyWindowLens
    \/ ApplyPlayGameScore
    \/ ApplyAnalyzeRecordingScore
    \/ ApplyGenerateNote
    \/ ApplyFindClosestNote
    \/ ApplyGenerateMetronome

SpecFn == InitFn /\ [][NextFn]_vars

\* ------------------------------------------------- one capture, read by read
\* the position a followed pass is played on
CapturePositions == {1}

\* no expected-note event: an event is <<play_index, note>>
NoEvent == <<>>

\* the beat index taken modulo sixteen
BeatNumberWrapped(samples_recorded, beat_samples) ==
    (samples_recorded \div beat_samples) % 16

\* beat_number = samples_recorded // beat_samples
BeatNumber(samples_recorded, beat_samples) ==
    samples_recorded \div beat_samples

\* the descending half read from the first note again
ExpectedNoteEventRestart(notes, beat_number, total_beats) ==
    LET notes_per_direction == Len(notes)
        play_index == beat_number - COUNT_IN
    IN  IF COUNT_IN <= beat_number /\ beat_number < total_beats
        THEN IF play_index < notes_per_direction
             THEN <<play_index, notes[play_index + 1]>>
             ELSE IF play_index < notes_per_direction * 2
             THEN <<play_index, notes[(play_index - notes_per_direction) + 1]>>
             ELSE NoEvent
        ELSE NoEvent

\* "Update expected note visual": the event a read leaves, on the notes of
\* the current position
ExpectedNoteEvent(notes, beat_number, total_beats) ==
    LET notes_per_direction == Len(notes)
        play_index == beat_number - COUNT_IN
    IN  IF COUNT_IN <= beat_number /\ beat_number < total_beats
        THEN IF play_index < notes_per_direction
             THEN <<play_index, notes[play_index + 1]>>
             ELSE IF play_index < notes_per_direction * 2
             THEN LET reverse_index == notes_per_direction
                                       - (play_index - notes_per_direction) - 1
                  IN  <<play_index, notes[reverse_index + 1]>>
             ELSE NoEvent
        ELSE NoEvent

\* the loop left as soon as the recording flag is cleared
CaptureGoesOnWhileRecording(samples_recorded, total_samples, flag) ==
    samples_recorded < total_samples /\ flag

\* while samples_recorded < total_samples: the recording flag is not read
CaptureGoesOn(samples_recorded, total_samples, flag) ==
    samples_recorded < total_samples

\* the capture loop about to be entered for a pass on position k at bpm
CaptureEntered(k, bpm, total_beats, total_samples) ==
    [ pc |-> "capturing", k |-> k, bpm |-> bpm,
      total_beats |-> total_beats, total_samples |-> total_samples,
      beat_samples |-> BeatSamples(1, bpm),
      samples_recorded |-> 0, reads |-> 0,
      event |-> NoEvent, before |-> 0 - 1, announced |-> {} ]

InitCapture ==
    /\ Init
    /\ file = NoFile

\* PentatonicGUI.change_position on the menu entry "Position i", before
\* the followed pass
CapChangePosition(i) ==
    /\ running /\ frontend = "gui"
    /\ cap.pc = "idle"
    /\ LET position_num == ParseInt(Last(MenuEntry(i))).val
       IN  IF position_num \in PositionNumbers
           THEN current_position' = position_num
           ELSE UNCHANGED current_position
    /\ UNCHANGED << frontend, running, current_bpm, progress, file, recording,
                    practice_button, workers, passes, op, call, cap >>
    /\ UNCHANGED console_vars

\* PentatonicGUI.toggle_practice: the press that starts the followed pass,
\* or a press while self.recording is set, which only clears the flag
CapTogglePractice ==
    /\ running /\ frontend = "gui"
    /\ IF ~recording
       THEN /\ cap.pc = "idle"
            /\ recording' = TRUE
            /\ practice_button' = "Stop Practice"
            /\ cap' = [pc |-> "begin"]
       ELSE /\ recording' = FALSE
            /\ practice_button' = "Start Practice"
            /\ UNCHANGED cap
    /\ UNCHANGED << frontend, running, current_bpm, progress, file,
                    current_position, workers, passes, op, call >>
    /\ UNCHANGED console_vars

\* practice_session up to the capture loop, with tempo bpm written in the
\* BPM spin box
CapPracticeBegin(bpm) ==
    /\ running /\ frontend = "gui"
    /\ cap.pc = "begin"
    /\ LET read == ParseInt(IntToStr(bpm))
       IN  IF ~read.ok \/ read.val = 0 \/ current_position = 0
           THEN cap' = [pc |-> "done"]
           ELSE LET total_beats == TotalBeats(current_position)
                    metronome == generate_metronome(read.val, total_beats)
                IN  IF ~metronome.ok
                    THEN cap' = [pc |-> "done"]
                    ELSE cap' = CaptureEntered(current_position, read.val,
                                               total_beats, metronome.len)
    /\ UNCHANGED << program_vars, call >>

\* play_game up to the capture loop, on the first unlocked position at the
\* current tempo
CapPlayGameBegin ==
    /\ running /\ frontend = "console" /\ con_pc = "menu"
    /\ cap.pc = "idle"
    /\ LET k == ScaleOfKey(progress.positions_unlocked[1])
           metronome == generate_metronome(current_bpm, TotalBeats(k))
       IN  /\ metronome.ok
           /\ cap' = CaptureEntered(k, current_bpm, TotalBeats(k), metronome.len)
    /\ con_pc' = "play"
    /\ con_idx' = 1
    /\ UNCHANGED << frontend, running, current_bpm, progress, file, passes,
                    op, call >>
    /\ UNCHANGED gui_vars

\* one test of the loop condition and, when it holds, one stream.read of
\* CHUNK_SIZE samples with the GUI's update of the expected note
ReadChunk ==
    /\ running
    /\ cap.pc = "capturing"
    /\ IF ~CaptureGoesOn(cap.samples_recorded, cap.total_samples,
                         frontend = "console" \/ recording)
       THEN cap' = [cap EXCEPT !.pc = "analysing"]
       ELSE LET samples_recorded == cap.samples_recorded + CHUNK_SIZE
                beat_number == BeatNumber(samples_recorded, cap.beat_samples)
                event == IF frontend = "gui"
                         THEN ExpectedNoteEvent(scale_positions[current_position],
                                                beat_number, cap.total_beats)
                         ELSE NoEvent
            IN  cap' = [cap EXCEPT
                          !.samples_recorded = samples_recorded,
                          !.reads = @ + 1,
                          !.event = event,
                          !.before = IF cap.event # NoEvent
                                     THEN cap.event[1] ELSE @,
                          !.announced = IF event # NoEvent
                                        THEN @ \cup {event[1]} ELSE @]
    /\ UNCHANGED << program_vars, call >>

\* practice_session after the loop: analyze_recording(recording, bpm)
CapAnalyzeRecording ==
    /\ running /\ frontend = "gui"
    /\ cap.pc = "analysing"
    /\ LET k    == current_position
           bpm  == cap.bpm
           lens == WindowLens(cap.samples_recorded, bpm)
       IN  \E heard \in Performances(k, Len(lens)) :
           \E accuracy \in {ScorePass(k, bpm, cap.samples_recorded, heard)} :
           \E after \in {AnalyzeProgress(progress, current_bpm, k, bpm,
                                         accuracy, Len(ExpectedNotes(k)))} :
                 /\ progress' = after.progress
                 /\ current_bpm' = after.current_bpm
                 /\ file' = IF after.saved THEN save_progress(after.progress)
                                            ELSE file
                 /\ cap' = [cap EXCEPT !.pc = IF after.raised THEN "done"
                                                               ELSE "after"]
                 /\ op' = [Ended("analyze_recording", k, bpm, accuracy,
                                 NoDetections(lens, heard))
                           EXCEPT !.raised = after.raised]
    /\ UNCHANGED << frontend, running, passes, current_position, recording,
                    practice_button, workers, call >>
    /\ UNCHANGED console_vars

\* PentatonicGUI.after_practice, requested by the followed thread
CapAfterPractice ==
    /\ running /\ frontend = "gui"
    /\ cap.pc = "after"
    /\ practice_button' = "Start Practice"
    /\ recording' = FALSE
    /\ cap' = [cap EXCEPT !.pc = "done"]
    /\ UNCHANGED << frontend, running, current_bpm, progress, file,
                    current_position, workers, passes, op, call >>
    /\ UNCHANGED console_vars

\* play_game after the loop: scoring, progression, save
CapPlayGameScore ==
    /\ running /\ frontend = "console" /\ con_pc = "play"
    /\ cap.pc = "analysing"
    /\ LET position == progress.positions_unlocked[con_idx]
           k        == ScaleOfKey(position)
           lens     == WindowLens(cap.samples_recorded, current_bpm)
       IN  \E heard \in Performances(k, Len(lens)) :
           \E accuracy \in {ScorePass(k, current_bpm, cap.samples_recorded, heard)} :
           \E after \in {PlayGameProgress(progress, current_bpm,
                                          position, accuracy)} :
                 /\ progress' = after.progress
                 /\ current_bpm' = after.current_bpm
                 /\ file' = save_progress(after.progress)
                 /\ op' = Ended("play_game", k, current_bpm, accuracy,
                                NoDetections(lens, heard))
    /\ cap' = [cap EXCEPT !.pc = "done"]
    /\ con_pc' = "again"
    /\ UNCHANGED << frontend, running, passes, con_idx, call >>
    /\ UNCHANGED gui_vars

NextCapture ==
    \/ \E i \in CapturePositions : CapChangePosition(i)
    \/ CapTogglePractice
    \/ \E bpm \in PlaybackTempos : CapPracticeBegin(bpm)
    \/ CapPlayGameBegin
    \/ ReadChunk
    \/ CapAnalyzeRecording
    \/ CapAfterPractice
    \/ CapPlayGameScore

SpecCapture == InitCapture /\ [][NextCapture]_vars

\* ------------------------------------------------------------------- claims
\* the operations that score a practice pass
ScoredPass == op.name \in {"play_game", "analyze_recording"}

\* the pass that ended last was scored at accuracy 100
Perfect == op.accuracy[1] = 100 * op.accuracy[2]

\* the history key of the pass that ended last
PassKey == <<op.pos, op.bpm>>

\* C1: a pass scored at accuracy 100 on position k < 5 whose successor is
\* not yet unlocked adds exactly position k+1 to positions_unlocked; a 100%
\* pass on position 5, or on a position whose successor is already
\* unlocked, leaves positions_unlocked unchanged (both front ends).
C1_UnlockExactlyNext ==
    (ScoredPass /\ Perfect) =>
        LET before == op.pre.positions_unlocked
            next   == PositionKey(op.pos + 1)
        IN  IF op.pos < 5 /\ ~InList(next, before)
            THEN progress.positions_unlocked = Append(before, next)
            ELSE progress.positions_unlocked = before

\* C2: a pass scored at accuracy 100 at a tempo below the target sets the
\* current tempo to min(tempo + step, target), with step 10 in play_game
\* and step 5 in analyze_recording, and the result never exceeds the target.
C2_TempoStepsTowardTarget ==
    (ScoredPass /\ Perfect /\ op.bpm < op.pre.target_bpm) =>
        /\ current_bpm = Min(op.bpm + (IF op.name = "play_game" THEN 10 ELSE 5),
                             op.pre.target_bpm)
        /\ current_bpm <= progress.target_bpm

\* C3: when an operation that changed the progress record ends (a scored
\* pass, setting the target tempo, a reset), the file holds the record that
\* is in memory.
C3_MutationsPersisted ==
    ( /\ op.name \in {"play_game", "analyze_recording", "set_target_bpm", "reset"}
      /\ progress # op.pre )
    => (file.kind = "ok" /\ file.rec = progress)

\* C4: startup with a well-formed file restores every field of the stored
\* record and sets the current tempo to the stored highest tempo; defaults
\* are used only when the file is absent or malformed.
C4_LoadRestoresRecord ==
    op.name = "startup" =>
        IF file.kind = "ok"
        THEN progress = file.rec /\ current_bpm = file.rec.highest_bpm
        ELSE progress = DefaultProgress

\* C5: with a corrupt or unreadable file, startup does not fail and the
\* progress record is the all-defaults record: total score 0, no
\* achievements, target tempo 240, empty history, highest tempo 120 and
\* only position1 unlocked.
C5_CorruptFileGivesDefaults ==
    (op.name = "startup" /\ file.kind = "corrupt") =>
        /\ running
        /\ progress.total_score = 0
        /\ progress.games_won = <<>>
        /\ progress.target_bpm = 240
        /\ DOMAIN progress.level_accuracies = {}
        /\ progress.highest_bpm = 120
        /\ progress.positions_unlocked =
              << <<"p", "o", "s", "i", "t", "i", "o", "n", "1">> >>

\* the GUI came up on a corrupt file
C5_Witness ==
    /\ op.name = "startup" /\ file.kind = "corrupt"
    /\ running /\ frontend = "gui"

\* the practice_session threads that have not finished their analysis
ActiveSessions ==
    {w \in Workers : workers[w].pc \in {"begin", "capturing", "analysing"}}

\* C6: at most one practice capture session is active at any time, under
\* any sequence of presses of the practice button.
C6_OneCaptureSession == Cardinality(ActiveSessions) <= 1

\* C7: a pass scored below 100 leaves positions_unlocked, the current tempo,
\* the highest tempo, the achievements and the target tempo unchanged; only
\* the accuracy history changes (both front ends).
C7_FailedPassChangesHistoryOnly ==
    (ScoredPass /\ ~Perfect) =>
        /\ progress.positions_unlocked = op.pre.positions_unlocked
        /\ current_bpm = op.pre_bpm
        /\ progress.highest_bpm = op.pre.highest_bpm
        /\ progress.games_won = op.pre.games_won
        /\ progress.target_bpm = op.pre.target_bpm
        /\ progress.total_score = op.pre.total_score
        /\ progress.level_accuracies # op.pre.level_accuracies

\* a GUI pass one note short of perfect, played at a tempo other than the
\* trainer's current tempo
C7_Witness ==
    /\ op.name = "analyze_recording"
    /\ op.accuracy = <<2300, 24>>
    /\ op.bpm # current_bpm
    /\ ~op.raised

\* C8: every completed pass appends exactly one value, its accuracy, to the
\* history list keyed by (sequence name, tempo of the pass), creating the
\* key if it is absent, and changes the list of no other key.
C8_PassAppendsOneAccuracy ==
    ScoredPass =>
        LET before == op.pre.level_accuracies
            after  == progress.level_accuracies
        IN  /\ DOMAIN after = DOMAIN before \cup {PassKey}
            /\ after[PassKey] =
                  Append(IF PassKey \in DOMAIN before THEN before[PassKey]
                                                      ELSE <<>>, op.accuracy)
            /\ \A key \in DOMAIN before : key # PassKey => after[key] = before[key]

\* a pass whose key already held a list, while another key holds one too
C8_Witness ==
    /\ ScoredPass
    /\ PassKey \in DOMAIN op.pre.level_accuracies
    /\ Len(progress.level_accuracies[PassKey]) > 1

C10_NoDetectionScoredIncorrect ==
    (ScoredPass /\ op.nones > 0) =>
        /\ ~Perfect
        /\ op.accuracy[1] <= 100 * (op.accuracy[2] - op.nones)
        /\ ~op.raised
        /\ PassKey \in DOMAIN progress.level_accuracies
        /\ Last(progress.level_accuracies[PassKey]) = op.accuracy

\* a pass whose last window held no detection and whose other notes counted
C10_Witness ==
    /\ ScoredPass /\ op.nones > 0
    /\ op.accuracy[1] = 100 * (op.accuracy[2] - op.nones)

\* a text that is no number, or a number outside 60..300
InvalidTargetText(text) ==
    LET new_target == ParseInt(text)
    IN  \/ ~new_target.ok
        \/ new_target.val < TARGET_MIN
        \/ new_target.val > TARGET_MAX

\* C13: set_target_bpm (console and GUI) on a non-numeric text or a number
\* outside [60, 300] leaves the target tempo, the current tempo and the
\* persisted record unchanged, and the target tempo is within [60, 300] in
\* every reachable state.
C13_InvalidTargetRejected ==
    /\ progress.target_bpm \in TARGET_MIN..TARGET_MAX
    /\ (op.name = "set_target_bpm" /\ InvalidTargetText(op.text)) =>
          /\ progress.target_bpm = op.pre.target_bpm
          /\ current_bpm = op.pre_bpm
          /\ file = op.pre_file

\* the GUI's "Set Target" was clicked on 301 after the target had been set
\* to 125 and saved
C13_Witness ==
    /\ frontend = "gui" /\ op.name = "set_target_bpm"
    /\ op.text = <<"3", "0", "1">>
    /\ op.pre.target_bpm = 125
    /\ file.kind = "ok" /\ file.rec.target_bpm = 125

\* a scoring function was applied on its own
ScoreCall == call.fn \in {"play_game", "analyze_recording"}

\* the expected sequence of that application
CallExpected == call.args.notes \o Reversed(call.args.notes)

\* the lengths of its beat windows
CallLens ==
    WindowLens(RecordingLen(call.args.notes, call.args.bpm), call.args.bpm)

\* every beat window of the expected sequence yielded a frequency
EveryWindowDetected ==
    \A j \in 1..Len(CallExpected) :
        /\ j <= Len(CallLens) /\ CallLens[j] >= CHUNK_SIZE
        /\ call.args.heard[j] # None

\* the windows whose frequency is more than the tolerance away from the
\* expected note of the same index
OutOfTolerance ==
    {j \in 1..Len(CallExpected) :
        /\ call.args.heard[j] # None
        /\ Abs(call.args.heard[j][1] - NoteFrequency(CallExpected[j]))
              > FREQUENCY_TOLERANCE}

\* C11: the accuracy is correct_count / M * 100 with M the length of the
\* expected sequence: 100 when every window is detected within tolerance,
\* (M - 1) / M * 100 when every window is detected and exactly one is out
\* of tolerance, and always within [0, 100] (both front ends, M > 0).
C11_AccuracyFormula ==
    (ScoreCall /\ Len(CallExpected) > 0) =>
        LET M == Len(CallExpected)
            accuracy == call.out.accuracy
        IN  /\ call.out.scored
            /\ accuracy[2] = M
            /\ 0 <= accuracy[1] /\ accuracy[1] <= 100 * M
            /\ (EveryWindowDetected /\ OutOfTolerance = {})
                  => accuracy[1] = 100 * M
            /\ (EveryWindowDetected /\ Cardinality(OutOfTolerance) = 1)
                  => accuracy[1] = 100 * (M - 1)

\* analyze_recording scored a pass whose first window alone was a semitone
\* sharp: 23 of 24
C11_Witness ==
    /\ call.fn = "analyze_recording"
    /\ EveryWindowDetected /\ OutOfTolerance = {1}
    /\ call.out.accuracy = <<2300, 24>>

C14_GenerateNoteFits ==
    call.fn = "generate_note" =>
        /\ call.args.bpm \in BPM_MIN..BPM_MAX
        /\ call.out.ok
        /\ call.out.len = (60 * SAMPLE_RATE) \div call.args.bpm
        /\ ATTACK_SAMPLES + DECAY_SAMPLES <= call.out.len
        /\ RELEASE_SAMPLES <= call.out.len

\* C15: find_closest_note maps a frequency s semitones (rounded) from
\* 440 Hz to the pitch class s semitones above A in the table anchored at
\* A, for every integer s, negative ones included.
C15_ClosestNoteFromA ==
    call.fn = "find_closest_note" =>
        LET s == RoundHalfEven(call.args.frequency[1] - A4_PITCH, GRID)
        IN  call.out[1] = NoteNames[(s % 12) + 1]

C17_PositionalPairing ==
    ScoreCall =>
        \A i \in 1..Len(call.out.paired) : call.out.paired[i] = i

\* a capture loop was entered and is followed
CaptureFollowed == "reads" \in DOMAIN cap

C19_CaptureEndsAtTotal ==
    CaptureFollowed =>
        LET needed == (cap.total_samples + CHUNK_SIZE - 1) \div CHUNK_SIZE
        IN  /\ cap.samples_recorded = cap.reads * CHUNK_SIZE
            /\ cap.reads <= needed
            /\ cap.pc # "capturing" =>
                  /\ cap.reads = needed
                  /\ cap.samples_recorded >= cap.total_samples
                  /\ cap.samples_recorded - CHUNK_SIZE < cap.total_samples
                  /\ cap.samples_recorded = CaptureLoop(0, cap.total_samples)
            /\ cap.pc \in {"after", "done"} =>
                  <<cap.k, cap.bpm>> \in DOMAIN progress.level_accuracies

\* a GUI pass at 120 BPM whose recording flag was cleared by the button
\* before the thread asked for after_practice: 603 reads, scored
C19_Witness ==
    /\ frontend = "gui" /\ CaptureFollowed
    /\ cap.pc = "after" /\ ~recording
    /\ cap.bpm = 120 /\ cap.reads = 603
    /\ <<1, 120>> \in DOMAIN progress.level_accuracies

\* C20: across the reads of one GUI capture the index of the announced
\* expected note never decreases and every index 0..2N-1 is announced at
\* least once, for every tempo in [40, 300] with 1024-sample chunks.
C20_ExpectedNoteNeverRegresses ==
    (frontend = "gui" /\ CaptureFollowed /\ cap.bpm \in BPM_MIN..BPM_MAX) =>
        /\ cap.event # NoEvent => cap.before <= cap.event[1]
        /\ cap.pc # "capturing" =>
              cap.announced = 0..(2 * Len(scale_positions[cap.k]) - 1)

\* the loop of a pass at 300 BPM is over and all 24 notes were announced
C20_Witness ==
    /\ frontend = "gui" /\ CaptureFollowed
    /\ cap.pc = "analysing" /\ cap.bpm = 300
    /\ cap.before = 23
    /\ cap.announced = 0..23

\* C21: no practice pass lowers the current tempo: whatever passes and
\* target changes came before, current_bpm after a scored pass is greater
\* than or equal to current_bpm before that pass.
C21_PassNeverLowersTempo ==
    ScoredPass => current_bpm >= op.pre_bpm

\* C23: a practice pass is only run on a position that is in
\* positions_unlocked when the pass starts, in the console and in the GUI.
C23_PassOnUnlockedPosition ==
    ScoredPass => InList(PositionKey(op.pos), op.pre.positions_unlocked)

C25_ExactlyTwoNWindows ==
    (call # NoCall /\ call.fn = "window_lens") =>
        LET lens == call.out
            N    == Len(call.args.notes)
        IN  /\ call.args.bpm \in BPM_MIN..BPM_MAX
            /\ { j \in 1..Len(lens) : lens[j] >= CHUNK_SIZE } = 1..(2 * N)

\* at 273 BPM the discard is one sample more than four beats and the
\* overshoot leaves a 25th window of 1007 samples, which is not analysed
C25_Witness ==
    /\ call # NoCall /\ call.fn = "window_lens"
    /\ call.args.bpm = 273 /\ Len(call.args.notes) = 12
    /\ start_sample(273) = 4 * samples_per_beat(273) + 1
    /\ Len(call.out) = 25 /\ call.out[25] = 1007

\* the pitch classes of the A minor pentatonic scale
A_MINOR_PENTATONIC == {"A", "C", "D", "E", "G"}

\* C26: every note of each of the five scale positions has a name, taken
\* from the chromatic table of its string at fret mod 12, that is a pitch
\* class of the A minor pentatonic scale {A, C, D, E, G}, and each position
\* holds 12 notes in strictly ascending pitch.
C26_NotesArePentatonic ==
    (call # NoCall /\ call.fn = "create_scale_position") =>
        LET notes == call.out
        IN  /\ Len(notes) = 12
            /\ \A i \in 1..Len(notes) : notes[i].name \in A_MINOR_PENTATONIC
            /\ \A i \in 1..(Len(notes) - 1) :
                  notes[i].frequency[1] < notes[i + 1].frequency[1]

\* C22: in the GUI every practice pass that is started eventually
\* finishes without further user action, whatever accuracy it scores:
\* once a thread is capturing, after_practice runs in the end, the
\* recording flag is false and the button reads 'Start Practice' again.
C22_PassEventuallyFinishes ==
    \A w \in Workers :
        (running /\ frontend = "gui" /\ workers[w].pc = "capturing")
            ~> (~recording /\ practice_button = "Start Practice")

====
